---- MODULE Spec2Model ----
(***************************************************************************)
(* The switching controller of homeGPT's model manager                     *)
(* (model-manager/internal/switcher/switcher.go), its backend registry     *)
(* (model-manager/pkg/models/models.go) and the backend client it drives   *)
(* (model-manager/internal/vllm/interface.go).                             *)
(*                                                                         *)
(* One state is: the registry (every backend's status and last-active      *)
(* mark, the active-id), the switch lock, the real sleep state of every    *)
(* backend server, the position and locals of every SwitchModel call, and  *)
(* the position and locals of the reconciliation goroutine.                *)
(*                                                                         *)
(* Granularity: one action per registry access (a Mark*, a read or a write *)
(* of activeModel under mapMu) and one per client call; what a goroutine   *)
(* computes on its own locals between two of these is part of the action   *)
(* that precedes it. A caller blocked on the switch lock has done nothing  *)
(* yet: its call begins with the step that acquires the lock.              *)
(*                                                                         *)
(* NewWithClient starts two reconciliation goroutines: the initial resync  *)
(* (at most 5 passes of at most 5 s, 1.5 s of backoff between them) and    *)
(* the ticker (every 30 s, passes of at most 10 s). By these times a pass  *)
(* ends before the next begins, so the passes are one sequential process:  *)
(* the initial passes, then the periodic ones. The callers of this         *)
(* repository (its tests) call WaitForInit before they use the Switcher:   *)
(* SwitchModel calls begin after the initial resync.                       *)
(*                                                                         *)
(* Spec is every interleaving of SwitchModel calls and reconciliation      *)
(* passes; SpecSeq is the behaviours of Spec in which no reconciliation    *)
(* pass overlaps a SwitchModel call. In both the clock and the host's      *)
(* available RAM stand still and nobody calls GetModels, which writes      *)
(* nothing the others read. SpecList is SpecSeq for one caller of          *)
(* SwitchModel, with the clock running and GetModels calls at any moment.  *)
(* SpecRam is SpecSeq with the available RAM changing at any moment.       *)
(* SpecLive is Spec for one caller, with the reconciliation goroutine      *)
(* scheduled fairly.                                                       *)
(* SpecRound is a test: one caller's calls one after the other, no pass    *)
(* from its beginning on, with the record (tlog) the test keeps of its     *)
(* calls and of the commands the mock client receives. SpecFair is two     *)
(* callers contending for the switch lock, GetModels calls holding the     *)
(* registry lock before a writer and passes between the calls, all         *)
(* scheduled fairly.                                                       *)
(*                                                                         *)
(* Two units are modelled on their own, each with a variable and a         *)
(* specification of its own: one call of RetryWithBackoff or PollUntil     *)
(* (model-manager/internal/utils/retry.go; rt, SpecRetry) and the start of *)
(* the service, config.Load followed by switcher.New (internal/config and  *)
(* cmd main; ld, SpecLoad).                                                *)
(***************************************************************************)
EXTENDS Integers, Sequences, FiniteSets, TLC

\* ---------------------------------------------------------------- bounds
\* Number of goroutines that call SwitchModel (HTTP request handlers).
NumCallers == 2
\* The configured health-check retry count (WithMaxRetries).
MaxRetries == 2
\* The last instant of the clock.
MaxTime == 2

\* ------------------------------------------------------- program constants
\* sleepModel's confirmation poll: RetryConfig.MaxAttempts.
SleepPollAttempts == 10
\* NewWithClient's initial resync: RetryConfig.MaxAttempts.
InitResyncAttempts == 5

\* ------------------------------------------------------------ configuration
\* The configured backends: a starts active, b starts asleep, d is disabled.
ModelIDs == {"a", "b", "d"}
\* An id that is in no configuration.
UnknownID == "x"
\* What a caller may pass to SwitchModel.
TargetIDs == ModelIDs \cup {UnknownID}
\* activeModel == "" : no backend believed active.
NoModel == ""
\* lastActive == nil : no timestamp.
NoTime == 0
\* The instant of construction.
StartTime == 1

StartupDisabled == "disabled"
StartupSleep == "sleep"
StartupActive == "active"

StartupMode == [m \in ModelIDs |->
    CASE m = "a" -> StartupActive
      [] m = "b" -> StartupSleep
      [] OTHER   -> StartupDisabled]

GPUMemoryGB == [m \in ModelIDs |->
    CASE m = "a" -> 16
      [] m = "b" -> 24
      [] OTHER   -> 8]

\* Values the RAM fetcher may report (GB).
RAMValues == {8, 16, 24}
\* The available RAM at construction (GB): the footprint of a.
StartRAM == 16

StatusActive == "active"
StatusSleeping == "sleeping"
StatusSwitching == "switching"
StatusError == "error"
StatusDisabled == "disabled"

Callers == 1 .. NumCallers

VARIABLES
    models,       \* Switcher.models: id -> [status, lastActive]
    activeModel,  \* Switcher.activeModel
    switchLock,   \* Switcher.switchLock is held
    awake,        \* the servers' real state: id -> the backend is awake
    sw,           \* caller -> position and locals of its SwitchModel call
    ctxDone,      \* caller -> the context it passed is cancelled
    rs,           \* position and locals of the reconciliation goroutine
    now,          \* the clock: what time.Now() returns
    gm,           \* position, locals and returned list of a GetModels call
    ram,          \* the host's available RAM (GB): what the RAM fetcher returns
    rt,           \* position and locals of a RetryWithBackoff / PollUntil call
    ld,           \* a config.Load call: the configuration read and the result
    tlog          \* the record a test keeps of its calls and the client's commands

vars == <<models, activeModel, switchLock, awake, sw, ctxDone, rs, now, gm, ram, rt, ld, tlog>>

\* ------------------------------------------------------------ models.Model
\* Mutant: the status is written without the timestamp.
MarkActive_StatusOnly(reg, m) == [reg EXCEPT ![m].status = StatusActive]

\* lastActive is a *time.Time: NoTime is nil, otherwise the instant.
MarkActive(reg, m) == [reg EXCEPT ![m] = [status |-> StatusActive, lastActive |-> now]]

\* Mutant: the status is not written.
MarkSleeping_Noop(reg, m) == reg

MarkSleeping(reg, m) == [reg EXCEPT ![m].status = StatusSleeping]

MarkSwitching(reg, m) == [reg EXCEPT ![m].status = StatusSwitching]

\* Mutant: MarkError writes nothing.
MarkError_Noop(reg, m) == reg

MarkError(reg, m) == [reg EXCEPT ![m].status = StatusError]

MarkDisabled(reg, m) == [reg EXCEPT ![m].status = StatusDisabled]

\* ---------------------------------------------------------- backend client
\* What a client call may return: its result, or an error (every method of
\* VLLMClient returns an error value; a cancelled context is one cause).
ClientResults(results) == results \cup {"err"}

\* GET /is_sleeping of backend m.
IsSleepingResults(m) ==
    ClientResults({IF awake[m] THEN "awake" ELSE "sleeping"})

\* GET /health of backend m.
HealthResults(m) == ClientResults({"healthy", "unhealthy"})

\* POST /sleep, POST /wake_up.
CommandResults == ClientResults({"ok"})

\* One entry of the client's call record.
ClientCall(op, m, level) == [op |-> op, id |-> m, level |-> level]

\* -------------------------------------------------------------- Switcher
\* Mutant: equal values give level 2.
determineSleepLevel_Strict(availableRAMGB, m) ==
    IF availableRAMGB > GPUMemoryGB[m] THEN 1 ELSE 2

\* determineSleepLevel
determineSleepLevel(availableRAMGB, m) ==
    IF availableRAMGB >= GPUMemoryGB[m] THEN 1 ELSE 2

\* A caller that is not inside SwitchModel.
IdleCall == [pc |-> "idle", target |-> NoModel, cur |-> NoModel, phase |-> "",
             k |-> 0, i |-> 0, pollErr |-> "", hr |-> "", actErr |-> "", actErrOf |-> "", ret |-> "",
             calls |-> <<>>]

\* NewWithClient: statuses by startup mode, activeModel the active one.
InitModels == [m \in ModelIDs |->
    CASE StartupMode[m] = StartupDisabled -> [status |-> StatusDisabled, lastActive |-> NoTime]
      [] StartupMode[m] = StartupSleep    -> [status |-> StatusSleeping, lastActive |-> NoTime]
      [] OTHER                            -> [status |-> StatusActive, lastActive |-> StartTime]]

\* Mutant: the constructor leaves s.activeModel empty.
InitActiveModel_None == NoModel

InitActiveModel == CHOOSE m \in ModelIDs : StartupMode[m] = StartupActive

\* The reconciliation goroutine before its first pass.
InitResync == [pc |-> "idle", startup |-> TRUE, attempt |-> 0, todo |-> {},
               lastActive |-> NoModel, anyErr |-> FALSE, probed |-> NoModel,
               res |-> "", seen |-> <<>>]

\* The servers at construction: at most one backend awake, a disabled one
\* (its container is not started) never.
InitAwake == {f \in [ModelIDs -> BOOLEAN] :
    /\ \A m \in ModelIDs : StartupMode[m] = StartupDisabled => ~f[m]
    /\ Cardinality({m \in ModelIDs : f[m]}) <= 1}

\* DefaultRetryConfig (delays in units of 100 ms)
DefaultRetryConfig ==
    [MaxAttempts |-> 3, InitialDelay |-> 1, MaxDelay |-> 10, Multiplier |-> <<2, 1>>]

\* No RetryWithBackoff call in progress.
IdleRetry ==
    [pc |-> "idle", cfg |-> DefaultRetryConfig, poll |-> FALSE, attempt |-> 0,
     delay |-> 0, lastErr |-> [msg |-> "nil", n |-> 0],
     ret |-> [msg |-> "nil", n |-> 0], outs |-> <<>>, delays |-> <<>>,
     cancelled |-> FALSE, cancelAt |-> [pc |-> "idle", n |-> 0]]

\* No config.Load call made.
NoLoad == [pc |-> "idle", file |-> [kind |-> "yaml", models |-> <<>>],
           ret |-> [msg |-> "nil", found |-> 0]]

\* No test is recording: the production client keeps no record of its calls.
LogOff == [on |-> FALSE, active |-> NoModel,
           status |-> [m \in ModelIDs |-> ""], log |-> <<>>]

\* The record with entry e added, when a test is recording.
Logged(e) == IF tlog.on THEN [tlog EXCEPT !.log = Append(@, e)] ELSE tlog

\* The entries of the record: a SwitchModel call made, its result, and a
\* command (Sleep, WakeUp) the mock client received.
CallEntry(t) == [op |-> "SwitchModel", id |-> t]
RetEntry(ret) == [op |-> "return", id |-> ret]
CmdEntry(op, m) == [op |-> op, id |-> m]

\* No GetModels call in progress, no list returned.
IdleList == [pc |-> "idle", todo |-> {}, list |-> {}, active |-> NoModel]

Init ==
    /\ models = InitModels
    /\ activeModel = InitActiveModel
    /\ switchLock = FALSE
    /\ awake \in InitAwake
    /\ sw = [c \in Callers |-> IdleCall]
    /\ ctxDone = [c \in Callers |-> FALSE]
    /\ rs = InitResync
    /\ now = StartTime
    /\ gm = IdleList
    /\ ram = StartRAM
    /\ rt = IdleRetry
    /\ ld = NoLoad
    /\ tlog = LogOff


\* --------------------------------------------------------------- GetModels
\* GetModels holds mapMu for reading: a writer of activeModel waits.
MapReadLocked == gm.pc = "loop"

\* Mutant: GetModels takes the switch lock.
GetModelsMayStart_SwitchLock == ~switchLock

\* GetModels takes mapMu.RLock only, which no goroutine holds for writing
\* longer than one step: it may always begin.
GetModelsMayStart == TRUE

\* Mutant: the backends in Error are left out of the list.
ToList_NoError(reg) == {m \in DOMAIN reg : reg[m].status # StatusError}

\* The backends GetModels lists: every entry of s.models.
ToList(reg) == DOMAIN reg

\* Mutant: the list holds the registry's backend itself.
Snapshot_Alias(reg, m) ==
    [id |-> m, status |-> reg[m].status, lastActive |-> reg[m].lastActive,
     shares |-> {"model", "mu", "lastActive"}]

\* Model.Snapshot under m.mu: a new Model with the status, a pointer to a
\* copy of the timestamp and a zero mutex. shares: what of the registry's
\* backend the snapshot refers to (the backend itself, its lock, its
\* timestamp pointer).
Snapshot(reg, m) ==
    [id |-> m, status |-> reg[m].status, lastActive |-> reg[m].lastActive,
     shares |-> {}]

\* What a reader of snapshot s finds in it when the registry is reg.
Observed(reg, s) ==
    IF "model" \in s.shares
    THEN [status |-> reg[s.id].status, lastActive |-> reg[s.id].lastActive]
    ELSE [status |-> s.status, lastActive |-> s.lastActive]

\* GetModels begins: s.mapMu.RLock().
GmStart ==
    /\ gm.pc \in {"idle", "done"}
    /\ GetModelsMayStart
    /\ gm' = [IdleList EXCEPT !.pc = "loop", !.todo = ToList(models)]
    /\ UNCHANGED <<models, activeModel, switchLock, awake, sw, ctxDone, rs, now, ram, rt, ld, tlog>>

\* The loop visits m, in the map's order (any): append(modelList, m.Snapshot()).
\* The list is kept as the set of its snapshots.
GmSnap(m) ==
    /\ gm.pc = "loop"
    /\ m \in gm.todo
    /\ gm' = [gm EXCEPT !.todo = @ \ {m}, !.list = @ \cup {Snapshot(models, m)}]
    /\ UNCHANGED <<models, activeModel, switchLock, awake, sw, ctxDone, rs, now, ram, rt, ld, tlog>>

\* GetModels returns the list and s.activeModel: s.mapMu.RUnlock().
GmReturn ==
    /\ gm.pc = "loop"
    /\ gm.todo = {}
    /\ gm' = [gm EXCEPT !.pc = "done", !.active = activeModel]
    /\ UNCHANGED <<models, activeModel, switchLock, awake, sw, ctxDone, rs, now, ram, rt, ld, tlog>>

\* A step of GetModels.
GetModelsStep == GmStart \/ (\E m \in ModelIDs : GmSnap(m)) \/ GmReturn

\* The host's available RAM changes.
RamChange ==
    /\ \E r \in RAMValues \ {ram} : ram' = r
    /\ UNCHANGED <<models, activeModel, switchLock, awake, sw, ctxDone, rs, now, gm, rt, ld, tlog>>

\* Time passes.
Tick ==
    /\ now < MaxTime
    /\ now' = now + 1
    /\ UNCHANGED <<models, activeModel, switchLock, awake, sw, ctxDone, rs, gm, ram, rt, ld, tlog>>

\* ------------------------------------------------------------- SwitchModel
\* Mutant: the rollback activates the target again.
ActModel_Target(c) == sw[c].target

\* The model an activateModel call of caller c works on: the target, or the
\* previously active model when it is the rollback.
ActModel(c) == IF sw[c].phase = "rollback" THEN sw[c].cur ELSE sw[c].target

\* A step of caller c to the call state r.
Step(c, r) == sw' = [sw EXCEPT ![c] = r]

\* The client records a call. A probe that a poll repeats is recorded once.
Record(c, call) ==
    LET calls == sw[c].calls
    IN IF /\ call.op \in {"IsSleeping", "Health"}
          /\ calls # <<>>
          /\ calls[Len(calls)] = call
       THEN calls
       ELSE Append(calls, call)

\* Mutant: the lock excludes nobody.
LockFree_NoLock == TRUE

\* s.switchLock.Lock() may return.
LockFree == ~switchLock

\* Mutant: the target is woken without the active model being put to sleep.
FirstStep_NoSleep(t, cur) ==
    IF t \notin ModelIDs THEN [pc |-> "ret", ret |-> "not found"]
    ELSE IF StartupMode[t] = StartupDisabled THEN [pc |-> "ret", ret |-> "disabled"]
    ELSE IF t = cur THEN [pc |-> "ret", ret |-> "nil"]
    ELSE [pc |-> "wakeMark", ret |-> ""]

\* Mutant: no check that the target is already the active model.
FirstStep_NoActiveCheck(t, cur) ==
    IF t \notin ModelIDs THEN [pc |-> "ret", ret |-> "not found"]
    ELSE IF StartupMode[t] = StartupDisabled THEN [pc |-> "ret", ret |-> "disabled"]
    ELSE IF cur # NoModel THEN [pc |-> "sleepMark", ret |-> ""]
    ELSE [pc |-> "wakeMark", ret |-> ""]

\* Mutant: no check that the target is disabled.
FirstStep_NoDisabledCheck(t, cur) ==
    IF t \notin ModelIDs THEN [pc |-> "ret", ret |-> "not found"]
    ELSE IF t = cur THEN [pc |-> "ret", ret |-> "nil"]
    ELSE IF cur # NoModel THEN [pc |-> "sleepMark", ret |-> ""]
    ELSE [pc |-> "wakeMark", ret |-> ""]

\* SwitchModel's checks after it has read the registry: where the call goes on
\* for target t when the active-id it read is cur.
FirstStep(t, cur) ==
    IF t \notin ModelIDs THEN [pc |-> "ret", ret |-> "not found"]
    ELSE IF StartupMode[t] = StartupDisabled THEN [pc |-> "ret", ret |-> "disabled"]
    ELSE IF t = cur THEN [pc |-> "ret", ret |-> "nil"]
    ELSE IF cur # NoModel THEN [pc |-> "sleepMark", ret |-> ""]
    ELSE [pc |-> "wakeMark", ret |-> ""]

\* Mutant: sleepModel's error is ignored and the target woken.
AfterSleepError_GoOn == [pc |-> "wakeMark", ret |-> ""]

\* SwitchModel after sleepModel returned an error.
AfterSleepError == [pc |-> "ret", ret |-> "failed to sleep current model"]

\* Mutant: a poll that returns an error fails sleepModel.
AfterPoll_Strict(pollErr) == IF pollErr = "" THEN "sleepDone" ELSE "sleepError"

\* sleepModel after its confirmation poll returned pollErr ("" is nil).
AfterPoll(pollErr) == "sleepDone"

\* Mutant: the rollback is run even when no backend was active.
AfterActivateError_AlwaysRollback(phase, cur) ==
    IF phase = "target"
    THEN [pc |-> "wakeMark", phase |-> "rollback", ret |-> ""]
    ELSE [pc |-> "ret", phase |-> phase, ret |-> "failed to activate target model"]

\* Mutant: no rollback.
AfterActivateError_NoRollback(phase, cur) ==
    [pc |-> "ret", phase |-> phase, ret |-> "failed to activate target model"]

\* SwitchModel after an activateModel call failed: the rollback of a failed
\* target activation when there was an active model, the error otherwise.
AfterActivateError(phase, cur) ==
    IF phase = "target" /\ cur # NoModel
    THEN [pc |-> "wakeMark", phase |-> "rollback", ret |-> ""]
    ELSE [pc |-> "ret", phase |-> phase, ret |-> "failed to activate target model"]

\* Mutant: a probe that returns an error passes.
HealthOk_ErrorPasses(r) == r # "unhealthy"

\* err == nil && healthy
HealthOk(r) == r = "healthy"

\* Mutant: the error of the last activateModel call is the one wrapped.
ReturnedCause_Last(phase, old, new) == new

\* The activateModel error SwitchModel wraps in the error it returns: the one
\* of the target's activation; the rollback's return value is dropped.
ReturnedCause(phase, old, new) == IF phase = "target" THEN new ELSE old

\* Mutant: success is returned without the active-id being set.
AfterActivate_NoCommit(phase) ==
    IF phase = "target"
    THEN [pc |-> "ret", ret |-> "nil"]
    ELSE [pc |-> "ret", ret |-> "failed to activate target model"]

\* SwitchModel after an activateModel call succeeded.
AfterActivate(phase) ==
    IF phase = "target"
    THEN [pc |-> "commit", ret |-> ""]
    ELSE [pc |-> "ret", ret |-> "failed to activate target model"]

\* A request handler's SwitchModel(ctx, t) begins: s.switchLock.Lock().
Enter(c, t) ==
    /\ sw[c].pc = "idle"
    /\ ~rs.startup
    /\ LockFree
    /\ switchLock' = TRUE
    /\ Step(c, [IdleCall EXCEPT !.pc = "read", !.target = t])
    /\ tlog' = Logged(CallEntry(t))
    /\ UNCHANGED <<models, activeModel, awake, ctxDone, rs, now, gm, ram, rt, ld>>

\* The read of s.models[targetModelID] and s.activeModel under mapMu, and the
\* checks that follow it.
Read(c) ==
    /\ sw[c].pc = "read"
    /\ LET nxt == FirstStep(sw[c].target, activeModel)
       IN Step(c, [sw[c] EXCEPT !.cur = activeModel, !.pc = nxt.pc,
                                 !.ret = nxt.ret, !.phase = "target"])
    /\ UNCHANGED <<models, activeModel, switchLock, awake, ctxDone, rs, now, gm, ram, rt, ld, tlog>>

\* sleepModel: model.MarkSwitching()
SleepMark(c) ==
    /\ sw[c].pc = "sleepMark"
    /\ models' = MarkSwitching(models, sw[c].cur)
    /\ Step(c, [sw[c] EXCEPT !.pc = "sleepCall"])
    /\ UNCHANGED <<activeModel, switchLock, awake, ctxDone, rs, now, gm, ram, rt, ld, tlog>>

\* sleepModel: determineSleepLevel, then the client's Sleep.
SleepCall(c) ==
    /\ sw[c].pc = "sleepCall"
    /\ \E r \in CommandResults :
        LET m == sw[c].cur
            call == ClientCall("Sleep", m, determineSleepLevel(ram, m))
        IN /\ awake' = IF r = "ok" THEN [awake EXCEPT ![m] = FALSE] ELSE awake
           /\ Step(c, [sw[c] EXCEPT !.calls = Record(c, call),
                                     !.pc = IF r = "ok" THEN "poll" ELSE "sleepError"])
    /\ tlog' = Logged(CmdEntry("Sleep", sw[c].cur))
    /\ UNCHANGED <<models, activeModel, switchLock, ctxDone, rs, now, gm, ram, rt, ld>>

\* sleepModel: the Sleep call failed: model.MarkError(), return the error.
SleepError(c) ==
    /\ sw[c].pc = "sleepError"
    /\ models' = MarkError(models, sw[c].cur)
    /\ Step(c, [sw[c] EXCEPT !.pc = AfterSleepError.pc, !.ret = AfterSleepError.ret])
    /\ UNCHANGED <<activeModel, switchLock, awake, ctxDone, rs, now, gm, ram, rt, ld, tlog>>

\* sleepModel: one attempt of PollUntil(IsSleeping): RetryWithBackoff returns
\* the context's error when the context is done, nil when the condition holds,
\* the last error after the last attempt, and otherwise waits and goes round.
Poll(c) ==
    /\ sw[c].pc = "poll"
    /\ IF ctxDone[c]
       THEN Step(c, [sw[c] EXCEPT !.pollErr = "context canceled", !.k = 0,
                                   !.pc = AfterPoll("context canceled")])
       ELSE \E r \in IsSleepingResults(sw[c].cur) :
            LET err == CASE r = "sleeping" -> ""
                         [] r = "awake"    -> "condition not met"
                         [] OTHER          -> "err"
                over == err = "" \/ sw[c].k = SleepPollAttempts - 1
            IN Step(c, [sw[c] EXCEPT
                    !.calls = Record(c, ClientCall("IsSleeping", sw[c].cur, 0)),
                    !.pollErr = err,
                    !.k = IF over THEN 0 ELSE @ + 1,
                    !.pc = IF over THEN AfterPoll(err) ELSE @])
    /\ UNCHANGED <<models, activeModel, switchLock, awake, ctxDone, rs, now, gm, ram, rt, ld, tlog>>

\* sleepModel: model.MarkSleeping(), return nil.
SleepDone(c) ==
    /\ sw[c].pc = "sleepDone"
    /\ models' = MarkSleeping(models, sw[c].cur)
    /\ Step(c, [sw[c] EXCEPT !.pc = "wakeMark"])
    /\ UNCHANGED <<activeModel, switchLock, awake, ctxDone, rs, now, gm, ram, rt, ld, tlog>>

\* activateModel: model.MarkSwitching()
WakeMark(c) ==
    /\ sw[c].pc = "wakeMark"
    /\ models' = MarkSwitching(models, ActModel(c))
    /\ Step(c, [sw[c] EXCEPT !.pc = "wakeCall"])
    /\ UNCHANGED <<activeModel, switchLock, awake, ctxDone, rs, now, gm, ram, rt, ld, tlog>>

\* activateModel: the client's WakeUp.
WakeCall(c) ==
    /\ sw[c].pc = "wakeCall"
    /\ \E r \in CommandResults :
        LET m == ActModel(c)
        IN /\ awake' = IF r = "ok" THEN [awake EXCEPT ![m] = TRUE] ELSE awake
           /\ Step(c, [sw[c] EXCEPT !.calls = Record(c, ClientCall("WakeUp", m, 0)),
                                     !.pc = IF r = "ok" THEN "health" ELSE "wakeError"])
    /\ tlog' = Logged(CmdEntry("WakeUp", ActModel(c)))
    /\ UNCHANGED <<models, activeModel, switchLock, ctxDone, rs, now, gm, ram, rt, ld>>

\* activateModel: the WakeUp call failed: model.MarkError(), return the error;
\* SwitchModel goes on with the rollback or returns.
WakeError(c) ==
    /\ sw[c].pc = "wakeError"
    /\ models' = MarkError(models, ActModel(c))
    /\ LET nxt == AfterActivateError(sw[c].phase, sw[c].cur)
           cause == ReturnedCause(sw[c].phase,
                        [msg |-> sw[c].actErr, id |-> sw[c].actErrOf],
                        [msg |-> "failed to wake up model", id |-> ActModel(c)])
       IN Step(c, [sw[c] EXCEPT !.pc = nxt.pc, !.phase = nxt.phase, !.ret = nxt.ret,
                                 !.actErr = cause.msg, !.actErrOf = cause.id])
    /\ UNCHANGED <<activeModel, switchLock, awake, ctxDone, rs, now, gm, ram, rt, ld, tlog>>

\* activateModel: health check number i+1 of maxRetries.
Health(c) ==
    /\ sw[c].pc = "health"
    /\ \E r \in HealthResults(ActModel(c)) :
        LET last == sw[c].i = MaxRetries - 1
        IN Step(c, [sw[c] EXCEPT
                !.calls = Record(c, ClientCall("Health", ActModel(c), 0)),
                !.hr = r,
                !.i = IF HealthOk(r) \/ last THEN 0 ELSE @ + 1,
                !.pc = IF HealthOk(r) THEN "healthy"
                       ELSE IF last THEN "healthError" ELSE @])
    /\ UNCHANGED <<models, activeModel, switchLock, awake, ctxDone, rs, now, gm, ram, rt, ld, tlog>>

\* activateModel: a health check passed: model.MarkActive(), return nil.
Healthy(c) ==
    /\ sw[c].pc = "healthy"
    /\ models' = MarkActive(models, ActModel(c))
    /\ LET nxt == AfterActivate(sw[c].phase)
       IN Step(c, [sw[c] EXCEPT !.pc = nxt.pc, !.ret = nxt.ret])
    /\ UNCHANGED <<activeModel, switchLock, awake, ctxDone, rs, now, gm, ram, rt, ld, tlog>>

\* activateModel: no health check passed: model.MarkError(), return the error;
\* SwitchModel goes on with the rollback or returns.
HealthError(c) ==
    /\ sw[c].pc = "healthError"
    /\ models' = MarkError(models, ActModel(c))
    /\ LET nxt == AfterActivateError(sw[c].phase, sw[c].cur)
           cause == ReturnedCause(sw[c].phase,
                        [msg |-> sw[c].actErr, id |-> sw[c].actErrOf],
                        [msg |-> "model failed to become healthy", id |-> ActModel(c)])
       IN Step(c, [sw[c] EXCEPT !.pc = nxt.pc, !.phase = nxt.phase, !.ret = nxt.ret,
                                 !.actErr = cause.msg, !.actErrOf = cause.id])
    /\ UNCHANGED <<activeModel, switchLock, awake, ctxDone, rs, now, gm, ram, rt, ld, tlog>>

\* SwitchModel: s.activeModel = targetModelID under mapMu, return nil.
Commit(c) ==
    /\ sw[c].pc = "commit"
    /\ ~MapReadLocked
    /\ activeModel' = sw[c].target
    /\ Step(c, [sw[c] EXCEPT !.pc = "ret", !.ret = "nil"])
    /\ UNCHANGED <<models, switchLock, awake, ctxDone, rs, now, gm, ram, rt, ld, tlog>>

\* SwitchModel returns sw[c].ret: the deferred s.switchLock.Unlock().
Unlocked_StillHeld == TRUE

\* defer s.switchLock.Unlock(): the switch lock after a return.
Unlocked == FALSE

Return(c) ==
    /\ sw[c].pc = "ret"
    /\ switchLock' = Unlocked
    /\ Step(c, IdleCall)
    /\ ctxDone' = [ctxDone EXCEPT ![c] = FALSE]
    /\ tlog' = Logged(RetEntry(sw[c].ret))
    /\ UNCHANGED <<models, activeModel, awake, rs, now, gm, ram, rt, ld>>

\* The caller cancels the context it passed to SwitchModel.
Cancel(c) ==
    /\ sw[c].pc # "idle"
    /\ ~ctxDone[c]
    /\ ctxDone' = [ctxDone EXCEPT ![c] = TRUE]
    /\ UNCHANGED <<models, activeModel, switchLock, awake, sw, rs, now, gm, ram, rt, ld, tlog>>

\* ------------------------------------------------------------ resyncModels
\* Mutant: the loop visits the disabled backends too.
ToProbe_All(ms) == ms

\* The models a pass probes: the loop skips the disabled ones.
ToProbe(ms) == {m \in ms : StartupMode[m] # StartupDisabled}

\* Mutant: the loop ends at the first probe that fails.
AfterProbeError_Stop(todo) == {}

\* The loop after a probe failed: continue, the rest is still visited.
AfterProbeError(todo) == todo

\* Mutant: a backend in Error is left as it is.
MarkProbed_ErrorSticks(reg, m, res) ==
    IF res = "err" \/ reg[m].status = StatusError THEN MarkError(reg, m)
    ELSE IF res = "sleeping" THEN MarkSleeping(reg, m)
    ELSE MarkActive(reg, m)

\* The loop marks m by its probe: MarkError on an error, MarkSleeping when it
\* is asleep, MarkActive when it is awake, whatever m's status was.
MarkProbed(reg, m, res) ==
    IF res = "err" THEN MarkError(reg, m)
    ELSE IF res = "sleeping" THEN MarkSleeping(reg, m)
    ELSE MarkActive(reg, m)

\* Mutant: the last backend that reports awake wins.
FirstWins_LastWins(lastActive, m) == m

\* The loop's lastActive after m reported awake: the first one wins.
FirstWins(lastActive, m) == IF lastActive = NoModel THEN m ELSE lastActive

\* Mutant: the active-id is kept when no backend reported awake.
ResyncActive_Keep(lastActive, old) == IF lastActive # NoModel THEN lastActive ELSE old

\* The active-id a pass writes: lastActive, or "" when no backend reported awake.
ResyncActive(lastActive, old) == IF lastActive # NoModel THEN lastActive ELSE NoModel

\* A pass begins: the copy of s.models under mapMu. rs.seen is the record of
\* this pass's probes, in the order of the visits.
RsStart ==
    /\ rs.pc = "idle"
    /\ rs' = [rs EXCEPT !.pc = "loop", !.todo = ToProbe(ModelIDs), !.lastActive = NoModel,
                        !.anyErr = FALSE, !.seen = <<>>,
                        !.attempt = IF rs.startup THEN @ + 1 ELSE @]
    /\ UNCHANGED <<models, activeModel, switchLock, awake, sw, ctxDone, now, gm, ram, rt, ld, tlog>>

\* The loop visits m, in the map's order (any): the client's IsSleeping.
RsProbe(m) ==
    /\ rs.pc = "loop"
    /\ m \in rs.todo
    /\ \E r \in IsSleepingResults(m) :
        rs' = [rs EXCEPT !.todo = @ \ {m}, !.probed = m, !.res = r, !.pc = "mark",
                         !.seen = Append(@, [id |-> m, res |-> r])]
    /\ UNCHANGED <<models, activeModel, switchLock, awake, sw, ctxDone, now, gm, ram, rt, ld, tlog>>

\* The loop marks the model it probed by the probe's result.
RsMark ==
    /\ rs.pc = "mark"
    /\ LET m == rs.probed
       IN /\ models' = MarkProbed(models, m, rs.res)
          /\ rs' = [rs EXCEPT
                !.pc = "loop", !.probed = NoModel, !.res = "",
                !.todo = IF rs.res = "err" THEN AfterProbeError(@) ELSE @,
                !.anyErr = @ \/ rs.res = "err",
                !.lastActive = IF rs.res = "awake" THEN FirstWins(@, m) ELSE @]
    /\ UNCHANGED <<activeModel, switchLock, awake, sw, ctxDone, now, gm, ram, rt, ld, tlog>>

\* The pass ends: s.activeModel = lastActive under mapMu, return anyErr. The
\* initial resync is over after a pass without error or after its last attempt.
RsCommit ==
    /\ rs.pc = "loop"
    /\ rs.todo = {}
    /\ ~MapReadLocked
    /\ activeModel' = ResyncActive(rs.lastActive, activeModel)
    /\ LET over == ~rs.anyErr \/ rs.attempt = InitResyncAttempts
       IN rs' = [rs EXCEPT !.pc = "idle", !.lastActive = NoModel, !.anyErr = FALSE,
                           !.seen = <<>>,
                           !.startup = @ /\ ~over,
                           !.attempt = IF rs.startup /\ ~over THEN @ ELSE 0]
    /\ UNCHANGED <<models, switchLock, awake, sw, ctxDone, now, gm, ram, rt, ld, tlog>>

\* ------------------------------------------------------- RetryWithBackoff
\* The largest MaxAttempts a caller passes.
MaxAttemptsBound == 3

\* RetryConfig values: MaxAttempts (zero and negative included), the delays
\* in units of 100 ms, the Multiplier as the fraction <<numerator, denominator>>.
AttemptValues == -1 .. MaxAttemptsBound
InitialDelays == {1, 3}
MaxDelays == {2, 4}
Multipliers == {<<2, 1>>, <<3, 2>>}
RetryConfigs ==
    [MaxAttempts : AttemptValues, InitialDelay : InitialDelays,
     MaxDelay : MaxDelays, Multiplier : Multipliers]

\* Error values. The error an invocation returns is a value of its own: n is
\* the number of the invocation that made it.
NilErr == [msg |-> "nil", n |-> 0]
CtxErr == [msg |-> "context canceled", n |-> 0]
OpErr(n) == [msg |-> "operation failed", n |-> n]
NotMetErr(n) == [msg |-> "condition not met", n |-> n]

\* What one invocation can do: the operation of RetryWithBackoff returns nil
\* or an error, the condition of PollUntil returns true, false or an error.
Outcomes(poll) == IF poll THEN {"true", "false", "err"} ELSE {"ok", "err"}

\* The error fn returns on its n-th invocation (PollUntil wraps the condition).
Fn(poll, out, n) ==
    IF out \in {"ok", "true"} THEN NilErr
    ELSE IF out = "false" THEN NotMetErr(n)
    ELSE OpErr(n)

\* Mutant: the first error is kept.
LastErr_First(old, err) == IF old = NilErr THEN err ELSE old

\* lastErr = err
LastErr(old, err) == err

\* Mutant: the loop does not look at the context.
LoopCtxErr_Never(cancelled) == FALSE

\* ctx.Err() != nil at the head of the loop
LoopCtxErr(cancelled) == cancelled

\* Mutant: the delay grows without a cap.
NextDelay_NoCap(delay, cfg) ==
    (delay * cfg.Multiplier[1]) \div cfg.Multiplier[2]

\* Mutant: the first attempt is made whatever MaxAttempts is.
LoopOver_AfterFirst(attempt, cfg) == attempt >= cfg.MaxAttempts /\ attempt > 0

\* The loop's condition attempt < cfg.MaxAttempts is false.
LoopOver(attempt, cfg) == attempt >= cfg.MaxAttempts

\* delay = time.Duration(float64(delay) * cfg.Multiplier), capped at MaxDelay
NextDelay(delay, cfg) ==
    LET d == (delay * cfg.Multiplier[1]) \div cfg.Multiplier[2]
    IN IF d > cfg.MaxDelay THEN cfg.MaxDelay ELSE d

\* The branches of the select that can be taken.
SelectBranches(cancelled) == IF cancelled THEN {"timer", "ctx"} ELSE {"timer"}

\* A caller calls RetryWithBackoff(ctx, cfg, fn), or PollUntil(ctx, cfg, condition).
RtStart ==
    /\ rt.pc = "idle"
    /\ \E cfg \in RetryConfigs, poll \in BOOLEAN :
        rt' = [pc |-> "loop", cfg |-> cfg, poll |-> poll, attempt |-> 0,
               delay |-> cfg.InitialDelay, lastErr |-> NilErr, ret |-> NilErr,
               outs |-> <<>>, delays |-> <<>>, cancelled |-> FALSE,
               cancelAt |-> [pc |-> "idle", n |-> 0]]
    /\ UNCHANGED <<models, activeModel, switchLock, awake, sw, ctxDone, rs, now, gm, ram, ld, tlog>>

\* The head of the loop: attempt < cfg.MaxAttempts, then ctx.Err().
RtLoop ==
    /\ rt.pc = "loop"
    /\ rt' = IF LoopOver(rt.attempt, rt.cfg)
             THEN [rt EXCEPT !.pc = "done", !.ret = rt.lastErr]
             ELSE IF LoopCtxErr(rt.cancelled)
             THEN [rt EXCEPT !.pc = "done", !.ret = CtxErr]
             ELSE [rt EXCEPT !.pc = "call"]
    /\ UNCHANGED <<models, activeModel, switchLock, awake, sw, ctxDone, rs, now, gm, ram, ld, tlog>>

\* fn() is invoked and returns.
RtCall ==
    /\ rt.pc = "call"
    /\ \E out \in Outcomes(rt.poll) :
        LET n == Len(rt.outs) + 1
            err == Fn(rt.poll, out, n)
            outs == Append(rt.outs, out)
        IN rt' = IF err = NilErr
                 THEN [rt EXCEPT !.pc = "done", !.ret = NilErr, !.outs = outs]
                 ELSE IF rt.attempt = rt.cfg.MaxAttempts - 1
                 THEN [rt EXCEPT !.pc = "done", !.outs = outs,
                                 !.lastErr = LastErr(@, err),
                                 !.ret = LastErr(rt.lastErr, err)]
                 ELSE [rt EXCEPT !.pc = "wait", !.outs = outs,
                                 !.lastErr = LastErr(@, err)]
    /\ UNCHANGED <<models, activeModel, switchLock, awake, sw, ctxDone, rs, now, gm, ram, ld, tlog>>

\* The select: the timer fires after delay, or the context is done.
RtWait ==
    /\ rt.pc = "wait"
    /\ \E branch \in SelectBranches(rt.cancelled) :
        rt' = IF branch = "timer"
              THEN [rt EXCEPT !.pc = "loop", !.attempt = @ + 1,
                              !.delays = Append(@, rt.delay),
                              !.delay = NextDelay(@, rt.cfg)]
              ELSE [rt EXCEPT !.pc = "done", !.ret = CtxErr]
    /\ UNCHANGED <<models, activeModel, switchLock, awake, sw, ctxDone, rs, now, gm, ram, ld, tlog>>

\* The caller's context is cancelled while the call runs.
RtCancel ==
    /\ rt.pc \in {"loop", "call", "wait"}
    /\ ~rt.cancelled
    /\ rt' = [rt EXCEPT !.cancelled = TRUE,
                        !.cancelAt = [pc |-> rt.pc, n |-> Len(rt.outs)]]
    /\ UNCHANGED <<models, activeModel, switchLock, awake, sw, ctxDone, rs, now, gm, ram, ld, tlog>>

NextRetry ==
    \/ RtStart
    \/ RtLoop
    \/ RtCall
    \/ RtWait
    \/ RtCancel

\* One call of RetryWithBackoff or PollUntil, for every configuration, every
\* sequence of outcomes of the operation and every moment of cancellation.
SpecRetry == Init /\ [][NextRetry]_vars

\* ------------------------------------------------------------ config.Load
\* The largest number of backends in a configuration file.
MaxModels == 3

\* The startup_mode of a configured backend: absent (""), one of the three
\* policies, or another string.
ConfigModes == {"", StartupDisabled, StartupSleep, StartupActive, "auto"}

\* The configuration files: one that cannot be read, one that is not YAML,
\* and the YAML files with up to MaxModels backends, each by its startup_mode.
ConfigLists == UNION {[1 .. n -> ConfigModes] : n \in 0 .. MaxModels}
ConfigFiles ==
    {[kind |-> k, models |-> <<>>] : k \in {"unreadable", "unparsable"}}
        \cup {[kind |-> "yaml", models |-> ms] : ms \in ConfigLists}

\* The errors of Load; found is the count the last one states.
LoadOk == [msg |-> "nil", found |-> 0]
ReadErr == [msg |-> "failed to read config file", found |-> 0]
ParseErr == [msg |-> "failed to parse config", found |-> 0]
NoModelsErr == [msg |-> "no models defined in config", found |-> 0]
NoModeErr == [msg |-> "startup_mode must be specified", found |-> 0]
CountErr(n) == [msg |-> "exactly one model must have startup_mode='active'", found |-> n]

\* Mutant: one Active backend or more is accepted.
CountOk_AtLeastOne(activeCount) == activeCount >= 1

\* activeCount != 1 is an error
CountOk(activeCount) == activeCount = 1

\* Load's loop over cfg.Models from index i on, and the check that follows it.
RECURSIVE LoadLoop(_, _, _)
LoadLoop(ms, i, activeCount) ==
    IF i > Len(ms)
    THEN IF CountOk(activeCount) THEN LoadOk ELSE CountErr(activeCount)
    ELSE IF ms[i] = "" THEN NoModeErr
    ELSE LoadLoop(ms, i + 1,
                  IF ms[i] = StartupActive THEN activeCount + 1 ELSE activeCount)

\* Load
Load(file) ==
    IF file.kind = "unreadable" THEN ReadErr
    ELSE IF file.kind = "unparsable" THEN ParseErr
    ELSE IF Len(file.models) = 0 THEN NoModelsErr
    ELSE LoadLoop(file.models, 1, 0)

\* NewWithClient's switch over the startup modes: an unknown one is fatal.
Constructs(ms) ==
    \A i \in 1 .. Len(ms) : ms[i] \in {StartupDisabled, StartupSleep, StartupActive}

\* main: cfg, err := config.Load(configPath)
LdLoad ==
    /\ ld.pc = "idle"
    /\ \E file \in ConfigFiles :
        ld' = [pc |-> "loaded", file |-> file, ret |-> Load(file)]
    /\ UNCHANGED <<models, activeModel, switchLock, awake, sw, ctxDone, rs, now, gm, ram, rt, tlog>>

\* main: log.Fatalf on an error of Load, switcher.New(cfg) otherwise.
LdMain ==
    /\ ld.pc = "loaded"
    /\ ld' = [ld EXCEPT !.pc = IF ld.ret # LoadOk THEN "exit"
                               ELSE IF Constructs(ld.file.models) THEN "constructed"
                               ELSE "fatal"]
    /\ UNCHANGED <<models, activeModel, switchLock, awake, sw, ctxDone, rs, now, gm, ram, rt, tlog>>

NextLoad ==
    \/ LdLoad
    \/ LdMain

\* The start of the service, for every configuration file.
SpecLoad == Init /\ [][NextLoad]_vars

\* ------------------------------------------------------------ specification
Next ==
    \/ \E c \in Callers, t \in TargetIDs : Enter(c, t)
    \/ \E c \in Callers : Read(c)
    \/ \E c \in Callers : SleepMark(c)
    \/ \E c \in Callers : SleepCall(c)
    \/ \E c \in Callers : SleepError(c)
    \/ \E c \in Callers : Poll(c)
    \/ \E c \in Callers : SleepDone(c)
    \/ \E c \in Callers : WakeMark(c)
    \/ \E c \in Callers : WakeCall(c)
    \/ \E c \in Callers : WakeError(c)
    \/ \E c \in Callers : Health(c)
    \/ \E c \in Callers : Healthy(c)
    \/ \E c \in Callers : HealthError(c)
    \/ \E c \in Callers : Commit(c)
    \/ \E c \in Callers : Return(c)
    \/ \E c \in Callers : Cancel(c)
    \/ RsStart
    \/ \E m \in ModelIDs : RsProbe(m)
    \/ RsMark
    \/ RsCommit

Spec == Init /\ [][Next]_vars

\* No SwitchModel call is in flight.
NoCall == \A c \in Callers : sw[c].pc = "idle"

\* No reconciliation pass is in flight.
NoPass == rs.pc = "idle"

\* SwitchModel begins while no pass is in flight.
SeqEnter(c, t) == NoPass /\ Enter(c, t)

\* A pass begins while no call is in flight.
SeqRsStart == NoCall /\ RsStart

\* Calls and passes one at a time.
NextSeq ==
    \/ \E c \in Callers, t \in TargetIDs : SeqEnter(c, t)
    \/ \E c \in Callers : Read(c)
    \/ \E c \in Callers : SleepMark(c)
    \/ \E c \in Callers : SleepCall(c)
    \/ \E c \in Callers : SleepError(c)
    \/ \E c \in Callers : Poll(c)
    \/ \E c \in Callers : SleepDone(c)
    \/ \E c \in Callers : WakeMark(c)
    \/ \E c \in Callers : WakeCall(c)
    \/ \E c \in Callers : WakeError(c)
    \/ \E c \in Callers : Health(c)
    \/ \E c \in Callers : Healthy(c)
    \/ \E c \in Callers : HealthError(c)
    \/ \E c \in Callers : Commit(c)
    \/ \E c \in Callers : Return(c)
    \/ \E c \in Callers : Cancel(c)
    \/ SeqRsStart
    \/ \E m \in ModelIDs : RsProbe(m)
    \/ RsMark
    \/ RsCommit

SpecSeq == Init /\ [][NextSeq]_vars

\* SpecSeq while the host's available RAM changes at any moment.
NextRam ==
    \/ \E c \in Callers, t \in TargetIDs : SeqEnter(c, t)
    \/ \E c \in Callers : Read(c)
    \/ \E c \in Callers : SleepMark(c)
    \/ \E c \in Callers : SleepCall(c)
    \/ \E c \in Callers : SleepError(c)
    \/ \E c \in Callers : Poll(c)
    \/ \E c \in Callers : SleepDone(c)
    \/ \E c \in Callers : WakeMark(c)
    \/ \E c \in Callers : WakeCall(c)
    \/ \E c \in Callers : WakeError(c)
    \/ \E c \in Callers : Health(c)
    \/ \E c \in Callers : Healthy(c)
    \/ \E c \in Callers : HealthError(c)
    \/ \E c \in Callers : Commit(c)
    \/ \E c \in Callers : Return(c)
    \/ \E c \in Callers : Cancel(c)
    \/ SeqRsStart
    \/ \E m \in ModelIDs : RsProbe(m)
    \/ RsMark
    \/ RsCommit
    \/ RamChange

SpecRam == Init /\ [][NextRam]_vars

\* The callers of SwitchModel in SpecList: one, whose context stays live.
ListCallers == {1}

\* The largest number of SwitchModel calls a test makes.
MaxCalls == 2

\* The SwitchModel calls the test has made.
CallsMade == Cardinality({n \in 1 .. Len(tlog.log) : tlog.log[n].op = "SwitchModel"})

\* A test begins, after WaitForInit and between two passes: it notes the
\* active-id and the statuses it starts from and installs the mock client's
\* hooks that record the commands.
TestBegin ==
    /\ ~tlog.on
    /\ ~rs.startup
    /\ NoPass
    /\ NoCall
    /\ tlog' = [on |-> TRUE, active |-> activeModel,
                status |-> [m \in ModelIDs |-> models[m].status], log |-> <<>>]
    /\ UNCHANGED <<models, activeModel, switchLock, awake, sw, ctxDone, rs, now, gm, ram, rt, ld>>

\* The test calls SwitchModel.
TestEnter(c, t) == tlog.on /\ CallsMade < MaxCalls /\ Enter(c, t)

\* A pass begins before the test does: none runs during the test.
TestRsStart == ~tlog.on /\ RsStart

\* A test of SwitchModel calls made one after the other by one caller, with
\* no reconciliation pass from its beginning on.
NextRound ==
    \/ TestBegin
    \/ \E c \in ListCallers, t \in TargetIDs : TestEnter(c, t)
    \/ \E c \in ListCallers : Read(c)
    \/ \E c \in ListCallers : SleepMark(c)
    \/ \E c \in ListCallers : SleepCall(c)
    \/ \E c \in ListCallers : SleepError(c)
    \/ \E c \in ListCallers : Poll(c)
    \/ \E c \in ListCallers : SleepDone(c)
    \/ \E c \in ListCallers : WakeMark(c)
    \/ \E c \in ListCallers : WakeCall(c)
    \/ \E c \in ListCallers : WakeError(c)
    \/ \E c \in ListCallers : Health(c)
    \/ \E c \in ListCallers : Healthy(c)
    \/ \E c \in ListCallers : HealthError(c)
    \/ \E c \in ListCallers : Commit(c)
    \/ \E c \in ListCallers : Return(c)
    \/ TestRsStart
    \/ \E m \in ModelIDs : RsProbe(m)
    \/ RsMark
    \/ RsCommit

SpecRound == Init /\ [][NextRound]_vars

\* The steps of the reconciliation goroutine.
RsNext ==
    \/ RsStart
    \/ \E m \in ModelIDs : RsProbe(m)
    \/ RsMark
    \/ RsCommit

\* One caller's SwitchModel calls and the passes in any interleaving.
NextLive ==
    \/ \E c \in ListCallers, t \in TargetIDs : Enter(c, t)
    \/ \E c \in ListCallers : Read(c)
    \/ \E c \in ListCallers : SleepMark(c)
    \/ \E c \in ListCallers : SleepCall(c)
    \/ \E c \in ListCallers : SleepError(c)
    \/ \E c \in ListCallers : Poll(c)
    \/ \E c \in ListCallers : SleepDone(c)
    \/ \E c \in ListCallers : WakeMark(c)
    \/ \E c \in ListCallers : WakeCall(c)
    \/ \E c \in ListCallers : WakeError(c)
    \/ \E c \in ListCallers : Health(c)
    \/ \E c \in ListCallers : Healthy(c)
    \/ \E c \in ListCallers : HealthError(c)
    \/ \E c \in ListCallers : Commit(c)
    \/ \E c \in ListCallers : Return(c)
    \/ RsStart
    \/ \E m \in ModelIDs : RsProbe(m)
    \/ RsMark
    \/ RsCommit

\* The reconciliation goroutine keeps running: the ticker fires every 30 s and
\* every client call of a pass returns within the pass's timeout.
SpecLive == Init /\ [][NextLive]_vars /\ WF_vars(RsNext)

\* The callers of SwitchModel that contend for the switch lock.
FairCallers == {1, 2}

\* SwitchModel is called: the caller's goroutine reaches s.switchLock.Lock()
\* and waits there. The argument is read only after the lock is acquired.
Request(c) ==
    /\ sw[c].pc = "idle"
    /\ ~rs.startup
    /\ Step(c, [IdleCall EXCEPT !.pc = "lock"])
    /\ UNCHANGED <<models, activeModel, switchLock, awake, ctxDone, rs, now, gm, ram, rt, ld, tlog>>

\* s.switchLock.Lock() returns: the waiting caller is admitted.
Admit(c, t) ==
    /\ sw[c].pc = "lock"
    /\ LockFree
    /\ switchLock' = TRUE
    /\ Step(c, [IdleCall EXCEPT !.pc = "read", !.target = t])
    /\ tlog' = Logged(CallEntry(t))
    /\ UNCHANGED <<models, activeModel, awake, ctxDone, rs, now, gm, ram, rt, ld>>

\* A caller waits in switchLock.Lock().
Waiting(c) == sw[c].pc = "lock"

\* A caller holds the switch lock: it was admitted and has not returned.
Admitted(c) == sw[c].pc \notin {"idle", "lock"}

\* As in SpecSeq no pass overlaps an admitted call: a waiting caller is
\* admitted between two passes, a pass begins when no call is admitted.
FairAdmit(c, t) == NoPass /\ Admit(c, t)
FairRsStart == (\A c \in Callers : ~Admitted(c)) /\ RsStart

\* A goroutine stands before mapMu.Lock(): a call before its write of the
\* active-id, a pass before its own.
WriterWaits == (\E c \in Callers : sw[c].pc = "commit") \/ (rs.pc = "loop" /\ rs.todo = {})

\* GetModels is called while a writer stands before mapMu.Lock(): the calls
\* that can make a writer wait. A call made at another moment holds the
\* registry lock the same way and reaches these states when a writer arrives.
FairGmStart == WriterWaits /\ GmStart

\* GetModels returns (the deferred RUnlock) and its caller, having encoded
\* the list, keeps nothing of it.
GmFinish ==
    /\ gm.pc = "loop"
    /\ gm.todo = {}
    /\ gm' = IdleList
    /\ UNCHANGED <<models, activeModel, switchLock, awake, sw, ctxDone, rs, now, ram, rt, ld, tlog>>

\* The steps of an admitted call that wait for nothing: registry accesses
\* under locks held for one access, client calls, the return.
Run(c) ==
    \/ Read(c)
    \/ SleepMark(c)
    \/ SleepCall(c)
    \/ SleepError(c)
    \/ Poll(c)
    \/ SleepDone(c)
    \/ WakeMark(c)
    \/ WakeCall(c)
    \/ WakeError(c)
    \/ Health(c)
    \/ Healthy(c)
    \/ HealthError(c)
    \/ Return(c)

\* The steps of a pass that wait for nothing.
RsRun == (\E m \in ModelIDs : RsProbe(m)) \/ RsMark

\* The steps of a GetModels call in progress.
GmRun == (\E m \in ModelIDs : GmSnap(m)) \/ GmFinish

\* SwitchModel calls of two callers, the wait for the switch lock included,
\* reconciliation passes between the calls, and GetModels calls that hold
\* the registry lock before a writer.
NextFair ==
    \/ \E c \in FairCallers : Request(c)
    \/ \E c \in FairCallers, t \in TargetIDs : FairAdmit(c, t)
    \/ \E c \in FairCallers : Read(c)
    \/ \E c \in FairCallers : SleepMark(c)
    \/ \E c \in FairCallers : SleepCall(c)
    \/ \E c \in FairCallers : SleepError(c)
    \/ \E c \in FairCallers : Poll(c)
    \/ \E c \in FairCallers : SleepDone(c)
    \/ \E c \in FairCallers : WakeMark(c)
    \/ \E c \in FairCallers : WakeCall(c)
    \/ \E c \in FairCallers : WakeError(c)
    \/ \E c \in FairCallers : Health(c)
    \/ \E c \in FairCallers : Healthy(c)
    \/ \E c \in FairCallers : HealthError(c)
    \/ \E c \in FairCallers : Commit(c)
    \/ \E c \in FairCallers : Return(c)
    \/ FairRsStart
    \/ \E m \in ModelIDs : RsProbe(m)
    \/ RsMark
    \/ RsCommit
    \/ FairGmStart
    \/ \E m \in ModelIDs : GmSnap(m)
    \/ GmFinish

\* The scheduling of SpecFair. Every goroutine that can take a step takes
\* one (the Go scheduler, and each client call returns). A goroutine waiting
\* in mapMu.Lock() is served once the readers that hold the lock are gone,
\* later readers waiting behind it (sync.RWMutex); a goroutine waiting in
\* switchLock.Lock() is handed the lock after a bounded wait (sync.Mutex,
\* starvation mode). Nobody is obliged to call SwitchModel or GetModels, and
\* no pass is obliged to begin.
Fairness ==
    /\ \A c \in FairCallers : WF_vars(Run(c))
    /\ \A c \in FairCallers : SF_vars(Commit(c))
    /\ \A c \in FairCallers : SF_vars(\E t \in TargetIDs : FairAdmit(c, t))
    /\ WF_vars(RsRun)
    /\ SF_vars(RsCommit)
    /\ WF_vars(GmRun)

SpecFair == Init /\ [][NextFair]_vars /\ Fairness

\* Calls and passes one at a time, while the clock runs and GetModels calls
\* run at any moment, between any two steps of a call or a pass.
NextList ==
    \/ \E c \in ListCallers, t \in TargetIDs : SeqEnter(c, t)
    \/ \E c \in ListCallers : Read(c)
    \/ \E c \in ListCallers : SleepMark(c)
    \/ \E c \in ListCallers : SleepCall(c)
    \/ \E c \in ListCallers : SleepError(c)
    \/ \E c \in ListCallers : Poll(c)
    \/ \E c \in ListCallers : SleepDone(c)
    \/ \E c \in ListCallers : WakeMark(c)
    \/ \E c \in ListCallers : WakeCall(c)
    \/ \E c \in ListCallers : WakeError(c)
    \/ \E c \in ListCallers : Health(c)
    \/ \E c \in ListCallers : Healthy(c)
    \/ \E c \in ListCallers : HealthError(c)
    \/ \E c \in ListCallers : Commit(c)
    \/ \E c \in ListCallers : Return(c)
    \/ SeqRsStart
    \/ \E m \in ModelIDs : RsProbe(m)
    \/ RsMark
    \/ RsCommit
    \/ GmStart
    \/ \E m \in ModelIDs : GmSnap(m)
    \/ GmReturn
    \/ Tick

SpecList == Init /\ [][NextList]_vars

\* ------------------------------------------------------------------ claims
\* Caller c is inside SwitchModel (it holds the switch lock).
InFlight(c) == sw[c].pc # "idle"

\* Caller c's SwitchModel is returning sw[c].ret.
Returned(c) == sw[c].pc = "ret"

\* This step is a step of caller c's SwitchModel call.
CallStep(c) == sw'[c] # sw[c]

\* The positions in a call record of the calls op on model m.
Places(calls, op, m) ==
    {n \in 1 .. Len(calls) : calls[n].op = op /\ calls[n].id = m}

\* The positions in a call record of the calls op.
PlacesOf(calls, op) == {n \in 1 .. Len(calls) : calls[n].op = op}

\* Caller c's call found an active model other than its (valid) target: it is
\* a switch from sw[c].cur to sw[c].target.
Switching(c) ==
    /\ sw[c].pc \notin {"idle", "read"}
    /\ sw[c].target \in ToProbe(ModelIDs)
    /\ sw[c].cur # NoModel
    /\ sw[c].cur # sw[c].target

\* C1: at most one backend is really awake, in every reachable state: the
\* controller never wakes a backend while another is still awake.
C1_AtMostOneAwake == Cardinality({m \in ModelIDs : awake[m]}) <= 1

\* C2: at most one SwitchModel call is past the switch lock at any time, the
\* lock is held exactly while one is, and a call reads the registry (is at
\* "read") only while every other caller is outside SwitchModel.
C2_OneSwitchInFlight ==
    /\ \A c, d \in Callers : InFlight(c) /\ InFlight(d) => c = d
    /\ switchLock <=> \E c \in Callers : InFlight(c)

\* C2 witness: one call is in the middle of its health checks, and another
\* caller's SwitchModel would now block on the lock.
C2_Witness ==
    \E c, d \in Callers :
        /\ c # d
        /\ sw[c].pc = "health"
        /\ sw[d].pc = "idle"
        /\ ~LockFree

\* C3: in a switch from A to B the first client call is Sleep on A, and every
\* WakeUp is recorded after the Sleep and after every probe of the sleep
\* confirmation poll: when WakeUp(B) is issued, Sleep(A) and its poll are over.
\* In particular in every switch that returns success.
C3_SleepBeforeWake ==
    \A c \in Callers :
        LET calls == sw[c].calls
        IN Switching(c) =>
            /\ calls # <<>> => calls[1].op = "Sleep" /\ calls[1].id = sw[c].cur
            /\ \A n \in PlacesOf(calls, "WakeUp") :
                 \A k \in PlacesOf(calls, "Sleep") \cup PlacesOf(calls, "IsSleeping") :
                    k < n
            /\ sw[c].pc = "wakeCall" => Places(calls, "Sleep", sw[c].cur) # {}
            /\ Returned(c) /\ sw[c].ret = "nil" =>
                 /\ Places(calls, "Sleep", sw[c].cur) # {}
                 /\ Places(calls, "WakeUp", sw[c].target) # {}

\* C3 witness: a switch from a to b returns success after a confirmed sleep.
C3_Witness ==
    \E c \in Callers :
        /\ Returned(c) /\ sw[c].ret = "nil"
        /\ sw[c].cur = "a" /\ sw[c].target = "b"
        /\ Places(sw[c].calls, "IsSleeping", "a") # {}
        /\ Places(sw[c].calls, "WakeUp", "b") # {}

\* The target of the call caller c is in, or of the call this step begins.
CallTarget(c) == IF sw[c].pc = "idle" THEN sw'[c].target ELSE sw[c].target

\* A target SwitchModel rejects: unknown, or disabled.
Rejected(t) == t \notin ModelIDs \/ StartupMode[t] = StartupDisabled

\* C4: SwitchModel(id) with id the active-id it reads returns nil with no
\* client call (no Sleep, no WakeUp), and no step of it, up to its return,
\* changes a backend's status or timestamp, the active-id or a server's state.
C4_AlreadyActive ==
    [][\A c \in Callers :
        /\ (CallStep(c) /\ sw[c].pc = "read" /\ sw[c].target = activeModel) =>
              /\ sw'[c].pc = "ret"
              /\ sw'[c].ret = "nil"
              /\ sw'[c].calls = <<>>
              /\ UNCHANGED <<models, activeModel, awake>>
        /\ (CallStep(c) /\ sw[c].pc = "ret" /\ sw[c].target = sw[c].cur) =>
              /\ sw[c].ret = "nil"
              /\ sw[c].calls = <<>>
              /\ sw'[c].pc = "idle"
              /\ UNCHANGED <<models, activeModel, awake>>
    ]_vars

\* C4 witness: SwitchModel(a) returns while a is the active-id.
C4_Witness ==
    \E c \in Callers :
        /\ Returned(c)
        /\ sw[c].target = "a" /\ sw[c].cur = "a" /\ activeModel = "a"
        /\ sw[c].ret = "nil"

\* C5: when the WakeUp of target B fails in a switch from A (no pass
\* overlapping the call), SwitchModel returns the activation error, a WakeUp
\* of A was issued after the WakeUp of B, and the active-id is still A.
C5_WakeFailRollback ==
    \A c \in Callers :
        (Returned(c) /\ Switching(c) /\ sw[c].actErr = "failed to wake up model") =>
            /\ sw[c].ret = "failed to activate target model"
            /\ activeModel = sw[c].cur
            /\ \E n \in Places(sw[c].calls, "WakeUp", sw[c].target) :
                 \E k \in Places(sw[c].calls, "WakeUp", sw[c].cur) : n < k

\* C5 witness: the switch from a to b returns after WakeUp(b) failed.
C5_Witness ==
    \E c \in Callers :
        /\ Returned(c)
        /\ sw[c].cur = "a" /\ sw[c].target = "b"
        /\ sw[c].actErr = "failed to wake up model"

\* C6 (as claimed): when WakeUp of target B succeeds and every health check
\* fails, SwitchModel marks B Error, returns an error and has issued no
\* WakeUp to the previously active backend A.
C6_NoRollbackAfterHealth ==
    \A c \in Callers :
        (Returned(c) /\ Switching(c)
            /\ sw[c].actErr = "model failed to become healthy") =>
            /\ models[sw[c].target].status = StatusError
            /\ sw[c].ret = "failed to activate target model"
            /\ Places(sw[c].calls, "WakeUp", sw[c].cur) = {}

\* C7: when Sleep on the active backend A fails in SwitchModel(B) (no pass
\* overlapping the call), the call returns the sleep error at once, with A
\* marked Error, the active-id A, no client call on B in its record and B's
\* server untouched; and no step of the call up to there changes B's status
\* or the active-id.
C7_SleepFailAborts ==
    [][\A c \in Callers : CallStep(c) =>
        /\ sw[c].pc = "sleepError" =>
              /\ sw'[c].pc = "ret"
              /\ sw'[c].ret = "failed to sleep current model"
        /\ (sw'[c].pc = "ret" /\ sw'[c].ret = "failed to sleep current model") =>
              /\ models'[sw[c].cur].status = StatusError
              /\ activeModel' = sw[c].cur
              /\ \A n \in 1 .. Len(sw'[c].calls) : sw'[c].calls[n].id # sw[c].target
        /\ (sw[c].target \in ModelIDs
              /\ sw[c].pc \in {"read", "sleepMark", "sleepCall", "sleepError"}) =>
              /\ models'[sw[c].target] = models[sw[c].target]
              /\ awake'[sw[c].target] = awake[sw[c].target]
              /\ activeModel' = activeModel
    ]_vars

\* C7 witness: SwitchModel(b) returns the sleep error, a marked Error.
C7_Witness ==
    \E c \in Callers :
        /\ Returned(c)
        /\ sw[c].cur = "a" /\ sw[c].target = "b"
        /\ sw[c].ret = "failed to sleep current model"
        /\ models["a"].status = StatusError

C9_SuccessfulSwitch ==
    \A c \in Callers :
        (Returned(c) /\ Switching(c) /\ sw[c].ret = "nil") =>
            /\ Cardinality(PlacesOf(sw[c].calls, "Sleep")) = 1
            /\ Places(sw[c].calls, "Sleep", sw[c].cur) # {}
            /\ Cardinality(PlacesOf(sw[c].calls, "WakeUp")) = 1
            /\ Places(sw[c].calls, "WakeUp", sw[c].target) # {}
            /\ activeModel = sw[c].target
            /\ models[sw[c].cur].status = StatusSleeping
            /\ models[sw[c].target].status = StatusActive

\* C9 witness: the switch from a to b returns success, its record being
\* Sleep(a), IsSleeping(a), WakeUp(b), Health(b).
C9_Witness ==
    \E c \in Callers :
        /\ Returned(c) /\ sw[c].ret = "nil"
        /\ sw[c].cur = "a" /\ sw[c].target = "b"
        /\ Len(sw[c].calls) = 4

\* C10: SwitchModel of an unknown or a disabled target returns its error
\* right after reading the registry: no step of the call records a client
\* call or changes a backend's status, the active-id or a server's state.
C10_RejectedNoEffect ==
    [][\A c \in Callers : (CallStep(c) /\ Rejected(CallTarget(c))) =>
        /\ UNCHANGED <<models, activeModel, awake>>
        /\ sw'[c].calls = <<>>
        /\ sw'[c].pc \in {"read", "ret", "idle"}
        /\ sw[c].pc = "read" =>
              /\ sw'[c].pc = "ret"
              /\ sw'[c].ret = IF sw[c].target \in ModelIDs THEN "disabled"
                                                           ELSE "not found"
    ]_vars

\* C10 witness: SwitchModel(d), d disabled, returns its error.
C10_Witness ==
    \E c \in Callers :
        /\ Returned(c)
        /\ sw[c].target = "d"
        /\ sw[c].ret = "disabled"

\* ------------------------------------------------- claims: reconciliation
\* The places of the pass's record where the probe reported awake.
Awakes(seen) == {n \in 1 .. Len(seen) : seen[n].res = "awake"}

\* The first backend of the pass's record that reported awake, "" if none.
FirstAwake(seen) ==
    IF Awakes(seen) = {} THEN NoModel
    ELSE seen[CHOOSE n \in Awakes(seen) : \A k \in Awakes(seen) : n <= k].id

\* The backends the pass has probed.
Probed(seen) == {seen[n].id : n \in 1 .. Len(seen)}

\* The pass has visited every backend: its next step is the write of the
\* active-id.
PassDone == rs.pc = "loop" /\ rs.todo = {}

\* This step is the end of a pass.
PassEnds == PassDone /\ rs'.pc = "idle"

\* C11: when a pass (no SwitchModel call overlapping it) has probed every
\* backend that is not disabled, exactly K reported awake and every other one
\* sleeping, then at its end the active-id is K, K is Active and every other
\* probed backend is Sleeping, whatever the registry was before the pass.
C11_ResyncConverges ==
    [][PassEnds =>
        \A K \in ModelIDs :
            (/\ Probed(rs.seen) = ToProbe(ModelIDs)
             /\ \A n \in 1 .. Len(rs.seen) :
                  rs.seen[n].res = IF rs.seen[n].id = K THEN "awake" ELSE "sleeping"
             /\ K \in Probed(rs.seen)) =>
                /\ activeModel' = K
                /\ models'[K].status = StatusActive
                /\ \A m \in ToProbe(ModelIDs) \ {K} : models'[m].status = StatusSleeping
    ]_vars

\* C11 witness: a pass found b awake and a sleeping while the active-id is a.
C11_Witness ==
    /\ PassDone
    /\ activeModel = "a"
    /\ \E n, k \in 1 .. Len(rs.seen) :
        /\ rs.seen[n] = [id |-> "b", res |-> "awake"]
        /\ rs.seen[k] = [id |-> "a", res |-> "sleeping"]

\* C12: in a pass (no SwitchModel call overlapping it) in which the probe
\* of X failed, the pass has still probed every other backend that is not
\* disabled; X is Error; every Y whose probe succeeded has the status of its
\* own result; the active-id written is the first Y that reported awake ("" if
\* none); and the pass returns an error.
C12_ProbeFailureIsolated ==
    [][(PassEnds /\ \E n \in 1 .. Len(rs.seen) : rs.seen[n].res = "err") =>
        /\ Probed(rs.seen) = ToProbe(ModelIDs)
        /\ \A n \in 1 .. Len(rs.seen) :
             models'[rs.seen[n].id].status =
                CASE rs.seen[n].res = "err"      -> StatusError
                  [] rs.seen[n].res = "sleeping" -> StatusSleeping
                  [] OTHER                       -> StatusActive
        /\ activeModel' = FirstAwake(rs.seen)
        /\ rs.anyErr
    ]_vars

\* C12 witness: a pass whose first probe, of a, failed, and whose second
\* probe found b awake.
C12_Witness ==
    /\ PassDone
    /\ rs.seen = <<[id |-> "a", res |-> "err"], [id |-> "b", res |-> "awake"]>>
    /\ models["a"].status = StatusError
    /\ models["b"].status = StatusActive

\* C13: at the end of a pass (no SwitchModel call overlapping it) every
\* backend that reported awake is Active, and when more than one did the
\* active-id written is the first of them visited.
C13_FirstAwakeWins ==
    [][PassEnds =>
        /\ \A n \in Awakes(rs.seen) : models'[rs.seen[n].id].status = StatusActive
        /\ Cardinality(Awakes(rs.seen)) > 1 =>
              /\ activeModel' = rs.seen[1].id \/ rs.seen[1].res # "awake"
              /\ activeModel' = FirstAwake(rs.seen)
    ]_vars

\* C13 witness: a pass in which b, then a, reported awake.
C13_Witness ==
    /\ PassDone
    /\ rs.seen = <<[id |-> "b", res |-> "awake"], [id |-> "a", res |-> "awake"]>>

\* C14: a pass in which no probe reported awake ends with the active-id "".
C14_NoneAwakeClears ==
    [][(PassEnds /\ Awakes(rs.seen) = {}) => activeModel' = NoModel]_vars

\* C14 witness: a pass found no backend awake while the active-id is b.
C14_Witness ==
    /\ PassDone
    /\ Awakes(rs.seen) = {}
    /\ Len(rs.seen) = 2
    /\ activeModel = "b"

\* ----------------------------------------- claims: statuses and GetModels
\* The snapshots this step adds to the list of the GetModels call.
NewSnapshots == gm'.list \ gm.list

\* C15: a backend whose status is Active has a timestamp; a step that makes
\* a backend Active, or writes an Active backend, sets its timestamp to the
\* instant of that step; and a snapshot holds the status and the timestamp the
\* backend had together at one instant, so a snapshot that is Active has the
\* timestamp of that activation.
C15_ActiveHasTimestamp ==
    [][/\ \A m \in ModelIDs :
            /\ models'[m].status = StatusActive => models'[m].lastActive # NoTime
            /\ (models'[m].status = StatusActive /\ models'[m] # models[m]) =>
                  models'[m].lastActive = now
       /\ \A s \in NewSnapshots :
            /\ s.status = models[s.id].status
            /\ s.lastActive = models[s.id].lastActive
            /\ s.status = StatusActive => s.lastActive # NoTime
    ]_vars

\* C15 witness: a returned list in which b is Active with a timestamp later
\* than the instant of construction.
C15_Witness ==
    /\ gm.pc = "done"
    /\ \E s \in gm.list :
        s.id = "b" /\ s.status = StatusActive /\ s.lastActive > StartTime

\* C16 (as claimed): a backend whose status is not Active has no timestamp.
C16_TimestampAbsentUnlessActive ==
    \A m \in ModelIDs :
        models[m].status # StatusActive => models[m].lastActive = NoTime

C18_ListComplete ==
    [][/\ \A s \in NewSnapshots : s.status = models[s.id].status
       /\ gm'.pc = "done" =>
            /\ {s.id : s \in gm'.list} = ModelIDs
            /\ Cardinality(gm'.list) = Cardinality(ModelIDs)
    ]_vars

\* C18 witness: a returned list with a backend in Error.
C18_Witness ==
    /\ gm.pc = "done"
    /\ \E s \in gm.list : s.status = StatusError

\* C19: no step of GetModels changes the switch lock, and in every state in
\* which a SwitchModel call is in flight a step of GetModels is possible: it
\* begins, copies the next backend or returns.
C19_ListDuringSwitch ==
    [][/\ gm' # gm => switchLock' = switchLock
       /\ (\E c \in Callers : InFlight(c)) => ENABLED GetModelsStep
    ]_vars

\* C19 witness: GetModels returns while a call that was in its health checks
\* when GetModels began is still in them.
C19_Witness ==
    /\ gm.pc = "done"
    /\ \E c \in Callers : sw[c].pc = "health"
    /\ \E s \in gm.list : s.status = StatusSwitching

Invoked == Len(rt.outs)
Succeeded(i) == Fn(rt.poll, rt.outs[i], i) = NilErr

\* C22: without cancellation, a returned RetryWithBackoff call with
\* MaxAttempts = N >= 1 has invoked the operation min(k, N) times, k the
\* number of the first successful invocation: every invocation but the last
\* failed, the call returns nil when the last one succeeded, and otherwise N
\* invocations were made and the error of the N-th is returned.
C22_RetryCount ==
    (rt.pc = "done" /\ ~rt.cancelled /\ rt.cfg.MaxAttempts >= 1) =>
        /\ Invoked \in 1 .. rt.cfg.MaxAttempts
        /\ \A i \in 1 .. Invoked - 1 : ~Succeeded(i)
        /\ Succeeded(Invoked) => rt.ret = NilErr
        /\ ~Succeeded(Invoked) =>
            /\ Invoked = rt.cfg.MaxAttempts
            /\ rt.ret = Fn(rt.poll, rt.outs[Invoked], Invoked)

\* C22 witness: MaxAttempts = 3, the operation failed three times and the
\* error of the third invocation is returned.
C22_Witness ==
    /\ rt.pc = "done"
    /\ ~rt.cancelled
    /\ ~rt.poll
    /\ rt.cfg.MaxAttempts = 3
    /\ rt.outs = <<"err", "err", "err">>
    /\ rt.ret = OpErr(3)

\* C23: when the context is cancelled after invocation j < MaxAttempts
\* failed, before or during the delay that follows it, no further invocation
\* is made and the call returns the cancellation error, which is not the
\* operation's error.
C23_CancelStops ==
    (rt.cancelled /\ rt.cancelAt.pc = "wait") =>
        /\ rt.cancelAt.n < rt.cfg.MaxAttempts
        /\ Invoked = rt.cancelAt.n
        /\ rt.pc # "call"
        /\ rt.pc = "done" => (rt.ret = CtxErr /\ rt.ret # rt.lastErr)

\* C23 witness: MaxAttempts = 3, cancelled after the second failed attempt,
\* the call returned the cancellation error after two invocations.
C23_Witness ==
    /\ rt.pc = "done"
    /\ rt.cfg.MaxAttempts = 3
    /\ rt.cancelAt = [pc |-> "wait", n |-> 2]
    /\ Invoked = 2
    /\ rt.ret = CtxErr

\* C24: when the condition passed to PollUntil returns an error, the
\* condition is not invoked again and PollUntil returns that error.
C24_PredicateErrorEndsPoll ==
    rt.poll =>
        \A i \in 1 .. Invoked :
            rt.outs[i] = "err" =>
                /\ i = Invoked
                /\ rt.pc = "done"
                /\ rt.ret = OpErr(i)

\* ------------------------------------------------ claims: cancellation
\* C25: once a caller's context is cancelled, no step of its SwitchModel call
\* changes a backend's status, other than ending the step in flight on a
\* backend that is Switching.
C25_CancelKeepsStatus ==
    [][\A c \in Callers : (ctxDone[c] /\ CallStep(c)) =>
        \A m \in ModelIDs :
            models'[m].status # models[m].status =>
                models[m].status = StatusSwitching
    ]_vars

\* ----------------------------------------------------- claims: startup
\* C27: a pass of the startup reconciliation that returns an error is
\* followed by another startup pass, and one that returns no error ends the
\* startup reconciliation.
C27_StartupRetriedUntilSuccess ==
    [][(rs.startup /\ PassEnds) => (rs'.startup <=> rs.anyErr)]_vars

\* C28: after construction and before any reconciliation pass, every backend's
\* status is the one of its startup policy and the active-id is the backend
\* whose startup policy is Active.
C28_StatusByStartupPolicy ==
    (rs.startup /\ rs.attempt = 0) =>
        /\ \A m \in ModelIDs :
            models[m].status =
                CASE StartupMode[m] = StartupDisabled -> StatusDisabled
                  [] StartupMode[m] = StartupSleep    -> StatusSleeping
                  [] StartupMode[m] = StartupActive   -> StatusActive
        /\ activeModel \in ModelIDs
        /\ StartupMode[activeModel] = StartupActive

\* C28 witness: the state after construction: a Active and the active-id, b
\* Sleeping, d Disabled, no pass begun.
C28_Witness ==
    /\ rs.startup
    /\ rs.attempt = 0
    /\ rs.pc = "idle"
    /\ activeModel = "a"
    /\ models["a"].status = StatusActive
    /\ models["b"].status = StatusSleeping
    /\ models["d"].status = StatusDisabled

\* ------------------------------------------------- claims: rollback error
\* C30: when the target's WakeUp failed and the rollback of the previously
\* active backend failed too, SwitchModel returns "failed to activate target
\* model" wrapping the error of the target's WakeUp, never the rollback's.
C30_RollbackErrorDropped ==
    \A c \in Callers :
        (/\ Returned(c)
         /\ Switching(c)
         /\ Places(sw[c].calls, "WakeUp", sw[c].target) # {}
         /\ Places(sw[c].calls, "Health", sw[c].target) = {}
         /\ Places(sw[c].calls, "WakeUp", sw[c].cur) # {}
         /\ models[sw[c].cur].status = StatusError) =>
            /\ sw[c].ret = "failed to activate target model"
            /\ sw[c].actErr = "failed to wake up model"
            /\ sw[c].actErrOf = sw[c].target

\* C30 witness: a switch from a to b returned after WakeUp(b) failed and the
\* rollback's WakeUp(a) failed.
C30_Witness ==
    \E c \in Callers :
        /\ Returned(c)
        /\ sw[c].cur = "a"
        /\ sw[c].target = "b"
        /\ sw[c].calls = <<ClientCall("Sleep", "a", 1), ClientCall("IsSleeping", "a", 0),
                           ClientCall("WakeUp", "b", 0), ClientCall("WakeUp", "a", 0)>>
        /\ models["a"].status = StatusError
        /\ models["b"].status = StatusError
        /\ sw[c].ret = "failed to activate target model"

\* ------------------------------------------------------- claims: Load
\* The number of backends of the file read whose startup policy is Active.
ActiveCount ==
    Cardinality({i \in 1 .. Len(ld.file.models) : ld.file.models[i] = StartupActive})

\* The file read has a backend, and every backend has a startup policy.
WellFormed ==
    /\ ld.file.kind = "yaml"
    /\ Len(ld.file.models) >= 1
    /\ \A i \in 1 .. Len(ld.file.models) : ld.file.models[i] # ""

\* C29 (as stated): Load of a configuration with zero or with two or more
\* Active backends returns the error stating the count found.
C29_CountErrorAlways ==
    (ld.pc # "idle" /\ ld.file.kind = "yaml" /\ ActiveCount # 1) =>
        ld.ret = CountErr(ActiveCount)

\* C29 (amended): Load returns nil only for a configuration with at least one
\* backend, a startup policy for every backend and exactly one Active backend;
\* with zero or with two or more Active backends it returns an error, which
\* states the count found when the configuration has a backend and every
\* backend has a startup policy; and the controller is constructed only from
\* a configuration Load accepted.
C29_LoadValidates ==
    ld.pc # "idle" =>
        /\ ld.ret = LoadOk => (WellFormed /\ ActiveCount = 1)
        /\ ActiveCount # 1 => ld.ret # LoadOk
        /\ (WellFormed /\ ActiveCount # 1) => ld.ret = CountErr(ActiveCount)
        /\ ld.pc = "constructed" => (WellFormed /\ ActiveCount = 1)

\* C29 witness: a configuration with two Active backends was rejected with
\* the count 2 and the service exited.
C29_Witness ==
    /\ ld.pc = "exit"
    /\ ld.file = [kind |-> "yaml", models |-> <<StartupActive, StartupSleep, StartupActive>>]
    /\ ld.ret = CountErr(2)

\* ------------------------------------------------ claims: leaving Error
\* This step is a probe of m by the reconciliation that fails.
ProbeFails(m) == rs.pc = "loop" /\ rs'.pc = "mark" /\ rs'.probed = m /\ rs'.res = "err"

\* This step is the reconciliation marking m after a probe of m that succeeded.
ProbedOk(m) == rs.pc = "mark" /\ rs.probed = m /\ rs.res # "err" /\ rs'.pc = "loop"

\* This step is the successful end of sleepModel(m) or activateModel(m) in a
\* SwitchModel call.
SwitchedOk(m) ==
    \E c \in Callers :
        /\ CallStep(c)
        /\ \/ sw[c].pc = "sleepDone" /\ sw[c].cur = m
           \/ sw[c].pc = "healthy" /\ ActModel(c) = m

\* C26: a backend in Error becomes Sleeping or Active only in a step of the
\* reconciliation that follows a successful probe of it or in the successful
\* end of a SwitchModel step on it; and, the reconciliation running on, if
\* from some moment on no probe of the backend fails, whenever the backend is
\* in Error it later is not.
C26_ErrorRecovery ==
    /\ [][\A m \in ModelIDs :
            (/\ models[m].status = StatusError
             /\ models'[m].status \in {StatusSleeping, StatusActive}) =>
                (ProbedOk(m) \/ SwitchedOk(m))
       ]_vars
    /\ \A m \in ToProbe(ModelIDs) :
            \/ []<><<ProbeFails(m)>>_vars
            \/ (models[m].status = StatusError) ~> (models[m].status # StatusError)

\* C26 witness: b is in Error and the pass has just probed b with success.
C26_Witness ==
    /\ models["b"].status = StatusError
    /\ rs.pc = "mark"
    /\ rs.probed = "b"
    /\ rs.res = "sleeping"

\* ------------------------------------------------------ claims: delays
\* The delays waited so far.
Delays == rt.delays

C40_NoAttemptsReturnsNil ==
    (rt.pc # "idle" /\ rt.cfg.MaxAttempts <= 0) =>
        /\ Invoked = 0
        /\ rt.pc \in {"loop", "done"}
        /\ rt.pc = "done" => rt.ret = NilErr

\* C40 witness: PollUntil with MaxAttempts = 0 returned nil and the condition
\* was never evaluated.
C40_Witness ==
    /\ rt.pc = "done"
    /\ rt.poll
    /\ rt.cfg.MaxAttempts = 0
    /\ rt.outs = <<>>
    /\ rt.ret = NilErr

\* ------------------------------------------------ claims: health checks
\* C32: after the WakeUp of a backend succeeded, every Health probe is on that
\* backend and is probe number i+1 <= maxRetries; a probe that returns healthy
\* without error ends the poll, the backend is then marked Active and the
\* activation of a target goes on to the commit; a probe that returns an error
\* and one that returns unhealthy count alike: another probe follows if this
\* was not the last, and the poll fails if it was.
C32_HealthPoll ==
    [][\A c \in Callers : CallStep(c) =>
        /\ sw[c].pc = "health" =>
            LET calls == sw'[c].calls
            IN /\ sw[c].i < MaxRetries
               /\ Places(sw[c].calls, "WakeUp", ActModel(c)) # {}
               /\ calls[Len(calls)] = ClientCall("Health", ActModel(c), 0)
               /\ sw'[c].hr = "healthy" => sw'[c].pc = "healthy"
               /\ sw'[c].hr \in {"unhealthy", "err"} =>
                    IF sw[c].i = MaxRetries - 1
                    THEN sw'[c].pc = "healthError"
                    ELSE sw'[c].pc = "health" /\ sw'[c].i = sw[c].i + 1
        /\ sw[c].pc = "healthy" =>
            /\ models'[ActModel(c)].status = StatusActive
            /\ sw[c].phase = "target" => sw'[c].pc = "commit"
    ]_vars

\* C32 witness: the first Health probe of target b returned an error and the
\* second one is due.
C32_Witness ==
    \E c \in Callers :
        /\ sw[c].pc = "health"
        /\ sw[c].target = "b"
        /\ sw[c].phase = "target"
        /\ sw[c].i = 1
        /\ sw[c].hr = "err"

\* C33: once the caller's context is cancelled, its SwitchModel call issues
\* no further Health probe.
C33_HealthPollHonorsCancel ==
    [][\A c \in Callers : (ctxDone[c] /\ CallStep(c)) => sw[c].pc # "health"]_vars

\* ---------------------------------------------- claims: Switching marks
\* No SwitchModel call is between its first step and its return.
NoCallRunning == \A c \in Callers : sw[c].pc \in {"idle", "ret"}

\* C34: whenever no SwitchModel call is running (none begun, or every one at
\* its return), no backend has status Switching, whatever passes of the
\* reconciliation overlapped the calls.
C34_NoSwitchingAtRest ==
    NoCallRunning => \A m \in ModelIDs : models[m].status # StatusSwitching

\* C34 witness: a switch from a to b is at its return after the WakeUp of b
\* failed and the rollback was run: both were marked Switching by the call,
\* neither is now.
C34_Witness ==
    \E c \in Callers :
        /\ Returned(c)
        /\ sw[c].cur = "a" /\ sw[c].target = "b"
        /\ Places(sw[c].calls, "WakeUp", "a") # {}
        /\ \A m \in ModelIDs : models[m].status # StatusSwitching

\* ------------------------------------------- claims: after a failed wake
\* The rollback of caller c's call woke the previous backend and saw it healthy.
RollbackOk(c) ==
    /\ Places(sw[c].calls, "Health", sw[c].cur) # {}
    /\ sw[c].hr = "healthy"

\* C37: when SwitchModel(B) returns after the WakeUp of B failed in a switch
\* from A (no pass overlapping the call), B is Error, the active-id is A, and
\* A is Active if the rollback's WakeUp(A) and a health probe after it
\* succeeded and Error otherwise.
C37_StateAfterWakeFailure ==
    \A c \in Callers :
        (/\ Returned(c)
         /\ Switching(c)
         /\ sw[c].actErr = "failed to wake up model"
         /\ sw[c].actErrOf = sw[c].target) =>
            /\ models[sw[c].target].status = StatusError
            /\ activeModel = sw[c].cur
            /\ models[sw[c].cur].status =
                    IF RollbackOk(c) THEN StatusActive ELSE StatusError

\* C37 witness: the rollback's WakeUp(a) succeeded and no health probe of a
\* did: the active-id a names a backend in Error.
C37_Witness ==
    \E c \in Callers :
        /\ Returned(c)
        /\ sw[c].cur = "a" /\ sw[c].target = "b"
        /\ sw[c].actErr = "failed to wake up model"
        /\ Places(sw[c].calls, "Health", "a") # {}
        /\ Places(sw[c].calls, "Health", "b") = {}
        /\ activeModel = "a"
        /\ models["a"].status = StatusError
        /\ models["b"].status = StatusError

\* ------------------------------------------ claims: no backend active
\* C38: a SwitchModel call for a known, not disabled target that read an empty
\* active-id makes client calls on its target only, no Sleep, WakeUp first
\* and at most one WakeUp; and when it returns an error the active-id is
\* still empty.
C38_FromNoActive ==
    \A c \in Callers :
        (/\ sw[c].pc \notin {"idle", "read"}
         /\ ~Rejected(sw[c].target)
         /\ sw[c].cur = NoModel) =>
            LET calls == sw[c].calls
            IN /\ \A n \in 1 .. Len(calls) : calls[n].id = sw[c].target
               /\ PlacesOf(calls, "Sleep") = {}
               /\ calls # <<>> => calls[1].op = "WakeUp"
               /\ Cardinality(PlacesOf(calls, "WakeUp")) <= 1
               /\ (Returned(c) /\ sw[c].ret # "nil") => activeModel = NoModel

\* C38 witness: with no active backend SwitchModel(b) returned an error after
\* the one WakeUp(b) failed; the active-id is empty.
C38_Witness ==
    \E c \in Callers :
        /\ Returned(c)
        /\ sw[c].cur = NoModel
        /\ sw[c].target = "b"
        /\ sw[c].calls = <<ClientCall("WakeUp", "b", 0)>>
        /\ sw[c].ret = "failed to activate target model"
        /\ activeModel = NoModel

\* ------------------------------------- claims: a pass overlapping a switch
\* C35: when a pass in which no probe failed ends while a switch from A to B
\* stands at its successful return, the active-id is B, A is Sleeping and B
\* is Active.
C35_PassKeepsSwitchResult ==
    [][(PassEnds /\ ~rs.anyErr) =>
        \A c \in Callers :
            (Returned(c) /\ Switching(c) /\ sw[c].ret = "nil") =>
                /\ activeModel' = sw[c].target
                /\ models'[sw[c].cur].status = StatusSleeping
                /\ models'[sw[c].target].status = StatusActive
    ]_vars

\* -------------------------------------------------- claims: round trip
\* C39: when a test began with active-id A, A Active and B Sleeping, its
\* first call SwitchModel(B) returned nil and its second call SwitchModel(A)
\* stands at its return of nil, no pass having run since the test began, then
\* the calls and commands recorded are SwitchModel(B), Sleep(A), WakeUp(B),
\* nil, SwitchModel(A), Sleep(B), WakeUp(A): two Sleep and two WakeUp in that
\* order; and the active-id is A again, A is Active and B Sleeping, as at the
\* beginning.
C39_RoundTrip ==
    \A c \in Callers, A \in ToProbe(ModelIDs), B \in ToProbe(ModelIDs) :
        LET L == tlog.log
        IN (/\ tlog.on
            /\ A # B
            /\ Returned(c) /\ sw[c].ret = "nil" /\ sw[c].target = A
            /\ CallsMade = 2
            /\ tlog.active = A
            /\ tlog.status[A] = StatusActive
            /\ tlog.status[B] = StatusSleeping
            /\ L[1] = CallEntry(B)
            /\ \E r \in 1 .. Len(L) - 1 :
                  L[r] = RetEntry("nil") /\ L[r + 1] = CallEntry(A)) =>
                /\ L = <<CallEntry(B), CmdEntry("Sleep", A), CmdEntry("WakeUp", B),
                         RetEntry("nil"), CallEntry(A), CmdEntry("Sleep", B),
                         CmdEntry("WakeUp", A)>>
                /\ activeModel = tlog.active
                /\ models[A].status = tlog.status[A]
                /\ models[B].status = tlog.status[B]

\* C39 witness: from a Active and the active-id, b Sleeping, the test's
\* SwitchModel(b) returned nil and its SwitchModel(a) is at its return of nil.
C39_Witness ==
    \E c \in Callers :
        /\ tlog.on
        /\ tlog.active = "a"
        /\ tlog.status["a"] = StatusActive
        /\ tlog.status["b"] = StatusSleeping
        /\ Returned(c) /\ sw[c].ret = "nil" /\ sw[c].target = "a"
        /\ tlog.log = <<CallEntry("b"), CmdEntry("Sleep", "a"), CmdEntry("WakeUp", "b"),
                        RetEntry("nil"), CallEntry("a"), CmdEntry("Sleep", "b"),
                        CmdEntry("WakeUp", "a")>>
        /\ activeModel = "a"
        /\ models["a"].status = StatusActive
        /\ models["b"].status = StatusSleeping

====
